---- MODULE Spec2Model ----
(***************************************************************************)
(* A model of the 2D ray caster src/main.c.                                *)
(*                                                                         *)
(* Numbers.  Every `double` of the program is modelled as an exact         *)
(* rational [n |-> numerator, d |-> denominator] in lowest terms with      *)
(* d > 0.  The three IEEE-754 values a division by zero produces are kept  *)
(* as d = 0: [n |-> 1, d |-> 0] is +inf, [n |-> -1, d |-> 0] is -inf and   *)
(* [n |-> 0, d |-> 0] is NaN.  Rounding error of the floating point        *)
(* operations is not modelled.                                             *)
(***************************************************************************)
EXTENDS Integers, Sequences, FiniteSets

Abs(a) == IF a < 0 THEN -a ELSE a

Sign(a) == IF a < 0 THEN -1 ELSE IF a > 0 THEN 1 ELSE 0

RECURSIVE GCD(_, _)
GCD(a, b) == IF b = 0 THEN a ELSE GCD(b, a % b)

\* The double n/d, d > 0, in lowest terms.
Rat(n, d) ==
    LET g == GCD(Abs(n), d)
    IN  [n |-> n \div g, d |-> d \div g]

Zero == Rat(0, 1)

One == Rat(1, 1)

NaN == [n |-> 0, d |-> 0]

RNeg(p) == [n |-> -p.n, d |-> p.d]

RAdd(p, q) ==
    LET g == GCD(p.d, q.d)
        l == (p.d \div g) * q.d
    IN  Rat(p.n * (l \div p.d) + q.n * (l \div q.d), l)

RSub(p, q) == RAdd(p, RNeg(q))

\* Factors are cancelled crosswise before multiplying, so that intermediate
\* values stay as small as the result.
RMul(p, q) ==
    LET g1 == GCD(Abs(p.n), q.d)
        g2 == GCD(Abs(q.n), p.d)
    IN  IF p.n = 0 \/ q.n = 0 THEN Zero
        ELSE [n |-> (p.n \div g1) * (q.n \div g2),
              d |-> (p.d \div g2) * (q.d \div g1)]

\* A division that yields 0 where the divisor is 0.
DDiv_ZeroGuard(p, q) ==
    IF q.n = 0 THEN Zero
    ELSE RMul(p, [n |-> Sign(q.n) * q.d, d |-> Abs(q.n)])

\* IEEE-754 division of finite doubles: x/0 is an infinity carrying the sign
\* of x, 0/0 is NaN; no trap is raised.
DDiv(p, q) ==
    IF q.n = 0 THEN [n |-> Sign(p.n), d |-> 0]
    ELSE RMul(p, [n |-> Sign(q.n) * q.d, d |-> Abs(q.n)])

\* Unary minus of a double: flips the sign of an infinity, keeps NaN.
DNeg(p) == [n |-> -p.n, d |-> p.d]

\* p < q for finite doubles, by comparing integer parts and then, Euclid
\* style, the reciprocals of the fractional parts.
RECURSIVE RLess(_, _)
RLess(p, q) ==
    LET fp == p.n \div p.d
        fq == q.n \div q.d
        rp == p.n % p.d
        rq == q.n % q.d
    IN  IF fp # fq THEN fp < fq
        ELSE IF rq = 0 THEN FALSE
        ELSE IF rp = 0 THEN TRUE
        ELSE RLess([n |-> q.d, d |-> rq], [n |-> p.d, d |-> rp])

\* The C comparison p <= q on doubles: false whenever an operand is NaN,
\* ordered as usual on the infinities.
DLeq(p, q) ==
    IF p.d = 0 /\ p.n = 0 THEN FALSE
    ELSE IF q.d = 0 /\ q.n = 0 THEN FALSE
    ELSE IF p.d = 0 /\ q.d = 0 THEN p.n <= q.n
    ELSE IF p.d = 0 THEN p.n < 0
    ELSE IF q.d = 0 THEN q.n > 0
    ELSE ~RLess(q, p)

RAbs(p) == [n |-> Abs(p.n), d |-> p.d]

(***************************************************************************)
(* Squares of distances exceed the range of the integers the rationals     *)
(* above are built from.  They are kept as fractions of natural numbers    *)
(* written in base 10000, least significant digit first, without leading   *)
(* zeros (zero is the empty sequence).                                     *)
(***************************************************************************)
RECURSIVE BigOf(_)
BigOf(a) == IF a = 0 THEN <<>> ELSE <<a % 10000>> \o BigOf(a \div 10000)

RECURSIVE BigAddC(_, _, _)
BigAddC(a, b, carry) ==
    IF a = <<>> /\ b = <<>> THEN (IF carry = 0 THEN <<>> ELSE <<carry>>)
    ELSE LET da == IF a = <<>> THEN 0 ELSE Head(a)
             db == IF b = <<>> THEN 0 ELSE Head(b)
             sum == da + db + carry
         IN  <<sum % 10000>> \o BigAddC(IF a = <<>> THEN a ELSE Tail(a),
                                        IF b = <<>> THEN b ELSE Tail(b),
                                        sum \div 10000)

BigAdd(a, b) == BigAddC(a, b, 0)

\* a times one digit k, k # 0.
RECURSIVE BigScaleC(_, _, _)
BigScaleC(a, k, carry) ==
    IF a = <<>> THEN BigOf(carry)
    ELSE LET prod == Head(a) * k + carry
         IN  <<prod % 10000>> \o BigScaleC(Tail(a), k, prod \div 10000)

RECURSIVE BigMul(_, _)
BigMul(a, b) ==
    IF a = <<>> \/ b = <<>> THEN <<>>
    ELSE LET rest == BigMul(a, Tail(b))
             shifted == IF rest = <<>> THEN rest ELSE <<0>> \o rest
         IN  IF Head(b) = 0 THEN shifted
             ELSE BigAdd(BigScaleC(a, Head(b), 0), shifted)

\* a < b, for numbers of the same length, from the most significant digit.
RECURSIVE BigLessAt(_, _, _)
BigLessAt(a, b, k) ==
    IF k = 0 THEN FALSE
    ELSE IF a[k] # b[k] THEN a[k] < b[k]
    ELSE BigLessAt(a, b, k - 1)

BigLess(a, b) ==
    IF Len(a) # Len(b) THEN Len(a) < Len(b) ELSE BigLessAt(a, b, Len(a))

\* p < q on two fractions n/d of such numbers.
SqLess(p, q) == BigLess(BigMul(p.n, q.d), BigMul(q.n, p.d))

(***************************************************************************)
(* Program constants.                                                      *)
(***************************************************************************)
MONITOR_SIZE_X == 1920

MONITOR_SIZE_Y == 1080

monitor_widescreen_compensation == Rat(MONITOR_SIZE_X, MONITOR_SIZE_Y)

CIRCLE_RADIUS == Rat(5, 100)

INT16_MAX == 32767

\* 10e-7, the threshold below which expandLine takes a delta for zero.
NEAR_ZERO == Rat(10, 10000000)

Pt(px, py) == [x |-> px, y |-> py]

Ln(p1, p2) == [point1 |-> p1, point2 |-> p2]

\* A decimal literal with two fractional digits, such as 0.65 == Dec(65).
Dec(h) == Rat(h, 100)

WallsData ==
    << Ln(Pt(Dec(65),  Dec(50)),  Pt(Dec(70),  Dec(80))),
       Ln(Pt(Dec(20),  Dec(30)),  Pt(Dec(40),  Dec(-20))),
       Ln(Pt(Dec(40),  Dec(-20)), Pt(Dec(5),   Dec(-30))),
       Ln(Pt(Dec(5),   Dec(-30)), Pt(Dec(-20), Dec(-10))),
       Ln(Pt(Dec(-20), Dec(-10)), Pt(Dec(-10), Dec(20))),
       Ln(Pt(Dec(-10), Dec(20)),  Pt(Dec(20),  Dec(30))),
       Ln(Pt(Dec(-50), Dec(50)),  Pt(Dec(-30), Dec(30))),
       Ln(Pt(Dec(-30), Dec(50)),  Pt(Dec(-50), Dec(30))),
       Ln(Pt(Dec(-50), Dec(-50)), Pt(Dec(-20), Dec(-50))) >>

\* A border list whose east border was typed at x = 0.9, inside the range of
\* the cursor.
BordersData_EastInside ==
    << Ln(Pt(Dec(-110), Dec(110)),  Pt(Dec(110),  Dec(110))),
       Ln(Pt(Dec(90),   Dec(110)),  Pt(Dec(90),   Dec(-110))),
       Ln(Pt(Dec(-110), Dec(-110)), Pt(Dec(110),  Dec(-110))),
       Ln(Pt(Dec(-110), Dec(110)),  Pt(Dec(-110), Dec(-110))) >>

\* North, East, South, West.
BordersData ==
    << Ln(Pt(Dec(-110), Dec(110)),  Pt(Dec(110),  Dec(110))),
       Ln(Pt(Dec(110),  Dec(110)),  Pt(Dec(110),  Dec(-110))),
       Ln(Pt(Dec(-110), Dec(-110)), Pt(Dec(110),  Dec(-110))),
       Ln(Pt(Dec(-110), Dec(110)),  Pt(Dec(-110), Dec(-110))) >>

\* A Point that has been declared but not assigned.  Its coordinates are no
\* doubles (d < 0), so it differs from every assigned Point.
Unassigned == Pt([n |-> 0, d |-> -1], [n |-> 0, d |-> -1])

\* What reading an unassigned Point may yield: any value at all; a few
\* representatives.
GarbagePoints == { Pt(Zero, Zero), Pt(One, RNeg(One)), Pt(NaN, NaN) }

(***************************************************************************)
(* Pure functions.                                                         *)
(***************************************************************************)
Clamp1(v) ==
    IF RLess(One, v) THEN One
    ELSE IF RLess(v, RNeg(One)) THEN RNeg(One)
    ELSE v

\* xpos, ypos: integer pixel positions reported by glfwGetCursorPos.
normalizeMonitorCoordinates(xpos, ypos) ==
    LET halfX == Rat(MONITOR_SIZE_X, 2)
        halfY == Rat(MONITOR_SIZE_Y, 2)
        nx == DDiv(RSub(Rat(xpos, 1), halfX), halfX)
        ny == DDiv(RSub(Rat(ypos, 1), halfY), halfY)
    IN  Pt(Clamp1(nx), RMul(Clamp1(ny), RNeg(One)))

\* The square of pointDistance(p1, p2), as a fraction (a^2 e^2 + c^2 b^2) /
\* (b^2 e^2) where p2.x - p1.x = a/b and p2.y - p1.y = c/e.  The square root
\* is increasing, so two distances compare as their squares do.
pointDistanceSq(p1, p2) ==
    LET dx == RSub(p2.x, p1.x)
        dy == RSub(p2.y, p1.y)
        a == BigOf(Abs(dx.n))
        b == BigOf(dx.d)
        c == BigOf(Abs(dy.n))
        e == BigOf(dy.d)
        ae == BigMul(a, e)
        cb == BigMul(c, b)
        be == BigMul(b, e)
    IN  [n |-> BigAdd(BigMul(ae, ae), BigMul(cb, cb)), d |-> BigMul(be, be)]

\* (x1 - x2) * (y3 - y4) - (y1 - y2) * (x3 - x4)
Denominator(l1, l2) ==
    RSub(RMul(RSub(l1.point1.x, l1.point2.x), RSub(l2.point1.y, l2.point2.y)),
         RMul(RSub(l1.point1.y, l1.point2.y), RSub(l2.point1.x, l2.point2.x)))

ParamT(l1, l2) ==
    DDiv(RSub(RMul(RSub(l1.point1.x, l2.point1.x), RSub(l2.point1.y, l2.point2.y)),
              RMul(RSub(l1.point1.y, l2.point1.y), RSub(l2.point1.x, l2.point2.x))),
         Denominator(l1, l2))

ParamU(l1, l2) ==
    DDiv(DNeg(RSub(RMul(RSub(l1.point1.x, l1.point2.x), RSub(l1.point1.y, l2.point1.y)),
                   RMul(RSub(l1.point1.y, l1.point2.y), RSub(l1.point1.x, l2.point1.x)))),
         Denominator(l1, l2))

\* The range test with both parameters kept strictly inside (0, 1).
InUnitRange_Strict(t, u) ==
    /\ DLeq(Zero, t) /\ t # Zero
    /\ DLeq(t, One)  /\ t # One
    /\ DLeq(Zero, u) /\ u # Zero
    /\ DLeq(u, One)  /\ u # One

\* 0.0 <= t && t <= 1.0 && 0.0 <= u && u <= 1.0
InUnitRange(t, u) ==
    /\ DLeq(Zero, t)
    /\ DLeq(t, One)
    /\ DLeq(Zero, u)
    /\ DLeq(u, One)

\* The result is [ret, point]: ret is the returned int; point is what the
\* call leaves in *intersection, given that it held `old` before the call.
findLineSegmentIntersection(l1, l2, old) ==
    LET t == ParamT(l1, l2)
        u == ParamU(l1, l2)
    IN  IF InUnitRange(t, u)
        THEN [ret |-> 1,
              point |-> Pt(RAdd(l1.point1.x, RMul(t, RSub(l1.point2.x, l1.point1.x))),
                           RAdd(l1.point1.y, RMul(t, RSub(l1.point2.y, l1.point1.y))))]
        ELSE [ret |-> 0, point |-> old]

ARBITRARY_OUT_OF_BOUNDS_COORD == Rat(INT16_MAX, 1)

expandLine(original) ==
    LET p1 == original.point1
        p2 == original.point2
        A  == ARBITRARY_OUT_OF_BOUNDS_COORD
        slope == DDiv(RSub(p2.y, p1.y), RSub(p2.x, p1.x))
        y_intercept == RSub(p1.y, RMul(slope, p1.x))
        ex == A
        ey == RAdd(RMul(slope, ex), y_intercept)
    IN  IF RLess(RAbs(RSub(p2.x, p1.x)), NEAR_ZERO)
        THEN IF RLess(p2.y, p1.y)
             THEN Ln(p1, Pt(p1.x, RMul(RNeg(One), A)))
             ELSE Ln(p1, Pt(p1.x, A))
        ELSE IF RLess(RAbs(RSub(p2.y, p1.y)), NEAR_ZERO)
        THEN IF RLess(p2.x, p1.x)
             THEN Ln(p1, Pt(RMul(RNeg(One), A), p1.y))
             ELSE Ln(p1, Pt(A, p1.y))
        ELSE Ln(p1, Pt(IF RLess(p2.x, p1.x) THEN RMul(ex, RNeg(One)) ELSE ex,
                       IF RLess(p2.y, p1.y) THEN RMul(ey, One) ELSE ey))

\* (double) INT64_MAX = 2^63 = 9223372036854775808, the initial
\* dist_to_intersection; squared, as the distances are.
INT64_MAX_D ==
    LET m == <<5808, 5477, 368, 3372, 922>>
    IN  [n |-> BigMul(m, m), d |-> <<1>>]

\* evaluateIntersection with the distance test written <= instead of <.
evaluateIntersection_Leq(st, exp, toIntersect, idx, acc) ==
    LET r == findLineSegmentIntersection(exp, toIntersect, acc.temp)
        dsq == pointDistanceSq(st.point1, r.point)
    IN  IF r.ret # 0
        THEN IF ~SqLess(acc.dist, dsq)
             THEN [intersection |-> r.point, temp |-> r.point,
                   dist |-> dsq, winner |-> idx]
             ELSE [acc EXCEPT !.temp = r.point]
        ELSE acc

\* acc holds what the pointer arguments refer to: intersection, temp and
\* dist_to_intersection (as a squared distance), and `winner`, the position
\* in iteration order (idx) of the obstacle whose hit was assigned last.
evaluateIntersection(st, exp, toIntersect, idx, acc) ==
    LET r == findLineSegmentIntersection(exp, toIntersect, acc.temp)
        dsq == pointDistanceSq(st.point1, r.point)
    IN  IF r.ret # 0
        THEN IF SqLess(dsq, acc.dist)
             THEN [intersection |-> r.point, temp |-> r.point,
                   dist |-> dsq, winner |-> idx]
             ELSE [acc EXCEPT !.temp = r.point]
        ELSE acc

(***************************************************************************)
(* Inputs.                                                                 *)
(***************************************************************************)
\* Bound of the parameters (m, n) that enumerate exact points
\* (cos, sin) = ((m^2 - n^2) / (m^2 + n^2), 2mn / (m^2 + n^2)) of the unit
\* circle.
MaxParam == 3

UnitDir(m, n) ==
    [c |-> Rat(m * m - n * n, m * m + n * n), s |-> Rat(2 * m * n, m * m + n * n)]

\* What cos and sin return at an angle the double i * inc only approximates,
\* such as pi / 2: a value next to zero instead of zero.
Tiny == Rat(1, 1000000)

NearAxisDirs ==
    { [c |-> Tiny, s |-> One], [c |-> RNeg(Tiny), s |-> RNeg(One)],
      [c |-> RNeg(One), s |-> Tiny], [c |-> One, s |-> RNeg(Tiny)] }

\* The values (cos(i * inc), sin(i * inc)) of the sampled directions.
SampleDirs ==
    { UnitDir(pr[1], pr[2]) :
        pr \in ((0..MaxParam) \X ((-MaxParam)..MaxParam)) \ {<<0, 0>>} }
    \cup NearAxisDirs

\* Cursor positions (pixels) that glfwGetCursorPos may report, some of them
\* outside the window.
CursorXs == {-200, 0, 480, 576, 960, 1152, 1440, 1920, 2300}

CursorYs == {-100, 0, 270, 324, 378, 540, 810, 1080, 1300}

\* One iteration of drawRays up to the call of findNearestIntersectionPoint:
\* the probe segment from the normalized origin to the reference circle.
ProbeSegment(xo, yo, dir) ==
    LET normalizedOrigin == normalizeMonitorCoordinates(xo, yo)
        xpos == RAdd(normalizedOrigin.x, RMul(CIRCLE_RADIUS, dir.c))
        ypos == RAdd(normalizedOrigin.y,
                     RMul(RMul(CIRCLE_RADIUS, monitor_widescreen_compensation), dir.s))
    IN  Ln(normalizedOrigin, Pt(xpos, ypos))

\* Bound of the integer coordinates of the segments handed to
\* findLineSegmentIntersection on its own.
MaxCoord == 2

GridPoints == { Pt(Rat(a, 1), Rat(b, 1)) : a \in 0..MaxCoord, b \in 0..MaxCoord }

\* Scroll offsets glfw may hand to scroll_callback: one wheel notch up or
\* down, half a notch (a touchpad), and a long fling either way.
YOffsets == { One, RNeg(One), Rat(1, 2), Rat(2000, 1), Rat(-2000, 1) }

XOffsets == { Zero, One }

\* Bound of the number of scroll events in one run.
MaxScrolls == 3

MAX_RAY_DENSITY == 1080

INITIAL_RAY_DENSITY == 180

(***************************************************************************)
(* State.                                                                  *)
(***************************************************************************)
VARIABLES
    walls,                  \* static const Line walls[]
    borders,                \* static const Line borders[]
    \* main and drawRays
    pc,                     \* position in main's frame loop
    RAY_DENSITY,
    inc,                    \* drawRays: 2.0 * PI / RAY_DENSITY, in units of 2 PI
    i,                      \* drawRays: the loop variable
    angle,                  \* drawRays: i * inc of the ray cast last, in units of 2 PI
    cast,                   \* rays handed to glVertex2d since glBegin
    nfind,                  \* calls of findNearestIntersectionPoint since glBegin
    yoffset,                \* the yoffset of the last scroll_callback
    nscroll,                \* scroll events so far
    \* one call of findNearestIntersectionPoint
    rpc,                    \* position in the call
    start,                  \* the argument
    expanded,
    i_find,                 \* the loop variable of the two for loops (0-based)
    intersection,
    temp,
    dist_to_intersection,   \* squared
    winner,                 \* 0, or the place in iteration order of the
                            \* obstacle whose hit `intersection` holds
    endPoint,               \* the returned Point, as drawRays receives it
    \* one call of findLineSegmentIntersection
    l1,
    l2,
    out,                    \* what the pointer argument refers to
    ret                     \* the returned int; -1 before the call

geomVars == <<walls, borders>>

frameVars == <<pc, RAY_DENSITY, inc, i, angle, cast, nfind, yoffset, nscroll>>

rayVars == <<rpc, start, expanded, i_find, intersection, temp,
             dist_to_intersection, winner, endPoint>>

isectVars == <<l1, l2, out, ret>>

vars == <<walls, borders, pc, RAY_DENSITY, inc, i, angle, cast, nfind, yoffset,
          nscroll, rpc, start, expanded, i_find, intersection, temp,
          dist_to_intersection, winner, endPoint, l1, l2, out, ret>>

InitGeom ==
    /\ walls = WallsData
    /\ borders = BordersData

\* The program before main's loop.
InitFrame ==
    /\ pc = "clear"
    /\ RAY_DENSITY = Rat(INITIAL_RAY_DENSITY, 1)
    /\ inc = NaN
    /\ i = 0
    /\ angle = NaN
    /\ cast = 0
    /\ nfind = 0
    /\ yoffset = Zero
    /\ nscroll = 0

\* No call of findNearestIntersectionPoint under way.
IdleRay ==
    /\ rpc = "idle"
    /\ start = Ln(Unassigned, Unassigned)
    /\ expanded = Ln(Unassigned, Unassigned)
    /\ i_find = 0
    /\ intersection = Unassigned
    /\ temp = Unassigned
    /\ dist_to_intersection = INT64_MAX_D
    /\ winner = 0
    /\ endPoint = Unassigned

\* No call of findLineSegmentIntersection under way.
IdleIsect ==
    /\ l1 = Ln(Unassigned, Unassigned)
    /\ l2 = Ln(Unassigned, Unassigned)
    /\ out = Unassigned
    /\ ret = -1

(***************************************************************************)
(* main's loop, drawRays and scroll_callback.                              *)
(***************************************************************************)
\* (int) RAY_DENSITY, for a density that is never negative.
IntOf(d) == d.n \div d.d

\* scroll_callback that adds the horizontal offset.
scroll_callback_X(density, xoff, yoff) ==
    LET sum == RAdd(density, xoff)
    IN  IF RLess(sum, Zero) THEN Zero
        ELSE IF RLess(Rat(MAX_RAY_DENSITY, 1), sum) THEN Rat(MAX_RAY_DENSITY, 1)
        ELSE sum

\* scroll_callback without its upper limit.
scroll_callback_NoMax(density, xoff, yoff) ==
    LET sum == RAdd(density, yoff)
    IN  IF RLess(sum, Zero) THEN Zero ELSE sum

\* The value scroll_callback leaves in RAY_DENSITY.
scroll_callback(density, xoff, yoff) ==
    LET sum == RAdd(density, yoff)
    IN  IF RLess(sum, Zero) THEN Zero
        ELSE IF RLess(Rat(MAX_RAY_DENSITY, 1), sum) THEN Rat(MAX_RAY_DENSITY, 1)
        ELSE sum

\* Line 291: glClear.
Clear ==
    /\ pc = "clear"
    /\ pc' = "drawRays"
    /\ UNCHANGED <<RAY_DENSITY, inc, i, angle, cast, nfind, yoffset, nscroll>>
    /\ UNCHANGED <<geomVars, rayVars, isectVars>>

\* Lines 219-231: drawRays up to its loop.
DrawRaysEnter ==
    /\ pc = "drawRays"
    /\ inc' = DDiv(One, RAY_DENSITY)
    /\ i' = 0
    /\ cast' = 0
    /\ nfind' = 0
    /\ angle' = NaN
    /\ pc' = "loop"
    /\ UNCHANGED <<RAY_DENSITY, yoffset, nscroll>>
    /\ UNCHANGED <<geomVars, rayVars, isectVars>>

\* Lines 232-242: one iteration of the loop of drawRays.
DrawRaysIter ==
    /\ pc = "loop"
    /\ i < IntOf(RAY_DENSITY)
    /\ angle' = RMul(Rat(i, 1), inc)
    /\ nfind' = nfind + 1
    /\ cast' = cast + 1
    /\ i' = i + 1
    /\ UNCHANGED <<pc, RAY_DENSITY, inc, yoffset, nscroll>>
    /\ UNCHANGED <<geomVars, rayVars, isectVars>>

\* Lines 232, 243: the loop test fails; glEnd.
DrawRaysExit ==
    /\ pc = "loop"
    /\ ~(i < IntOf(RAY_DENSITY))
    /\ pc' = "walls"
    /\ UNCHANGED <<RAY_DENSITY, inc, i, angle, cast, nfind, yoffset, nscroll>>
    /\ UNCHANGED <<geomVars, rayVars, isectVars>>

\* Lines 295-298: the walls are drawn.
DrawWalls ==
    /\ pc = "walls"
    /\ pc' = "swap"
    /\ UNCHANGED <<RAY_DENSITY, inc, i, angle, cast, nfind, yoffset, nscroll>>
    /\ UNCHANGED <<geomVars, rayVars, isectVars>>

\* Line 301: glfwSwapBuffers; line 304: glfwPollEvents is entered.
SwapBuffers ==
    /\ pc = "swap"
    /\ pc' = "poll"
    /\ UNCHANGED <<RAY_DENSITY, inc, i, angle, cast, nfind, yoffset, nscroll>>
    /\ UNCHANGED <<geomVars, rayVars, isectVars>>

\* Where glfw may call scroll_callback at all positions of the frame.
ScrollEnabled_Anywhere == pc # "closed"

\* glfw calls the scroll callback from within glfwPollEvents only.
ScrollEnabled == pc = "poll"

\* glfwPollEvents delivers one scroll event.
Scroll ==
    /\ ScrollEnabled
    /\ nscroll < MaxScrolls
    /\ \E xo \in XOffsets, yo \in YOffsets :
          /\ RAY_DENSITY' = scroll_callback(RAY_DENSITY, xo, yo)
          /\ yoffset' = yo
    /\ nscroll' = nscroll + 1
    /\ UNCHANGED <<pc, inc, i, angle, cast, nfind>>
    /\ UNCHANGED <<geomVars, rayVars, isectVars>>

\* glfwPollEvents returns; line 288: the window is to stay open.
PollReturn ==
    /\ pc = "poll"
    /\ pc' = "clear"
    /\ UNCHANGED <<RAY_DENSITY, inc, i, angle, cast, nfind, yoffset, nscroll>>
    /\ UNCHANGED <<geomVars, rayVars, isectVars>>

\* glfwPollEvents returns; line 288: the window is to close; line 307.
Close ==
    /\ pc = "poll"
    /\ pc' = "closed"
    /\ UNCHANGED <<RAY_DENSITY, inc, i, angle, cast, nfind, yoffset, nscroll>>
    /\ UNCHANGED <<geomVars, rayVars, isectVars>>

Init == InitGeom /\ InitFrame /\ IdleRay /\ IdleIsect

Next ==
    \/ Clear
    \/ DrawRaysEnter
    \/ DrawRaysIter
    \/ DrawRaysExit
    \/ DrawWalls
    \/ SwapBuffers
    \/ Scroll
    \/ PollReturn
    \/ Close

Spec == Init /\ [][Next]_vars

(***************************************************************************)
(* findNearestIntersectionPoint, one step per loop iteration.              *)
(***************************************************************************)
InitRay ==
    /\ InitGeom /\ InitFrame /\ IdleIsect
    /\ rpc = "call"
    /\ \E xo \in CursorXs, yo \in CursorYs, dir \in SampleDirs :
          start = ProbeSegment(xo, yo, dir)
    /\ expanded = Ln(Unassigned, Unassigned)
    /\ i_find = 0
    /\ intersection = Unassigned
    /\ temp = Unassigned
    /\ dist_to_intersection = INT64_MAX_D
    /\ winner = 0
    /\ endPoint = Unassigned

Acc == [intersection |-> intersection, temp |-> temp,
        dist |-> dist_to_intersection, winner |-> winner]

SetAcc(acc) ==
    /\ intersection' = acc.intersection
    /\ temp' = acc.temp
    /\ dist_to_intersection' = acc.dist
    /\ winner' = acc.winner

\* Lines 182-185: the locals, and expanded = expandLine(start).
FindEnter ==
    /\ rpc = "call"
    /\ expanded' = expandLine(start)
    /\ i_find' = 0
    /\ rpc' = "walls"
    /\ UNCHANGED <<start, intersection, temp, dist_to_intersection, winner, endPoint>>
    /\ UNCHANGED <<geomVars, frameVars, isectVars>>

\* Lines 188-191: one iteration of the loop over the walls.
FindWall ==
    /\ rpc = "walls"
    /\ i_find < Len(walls)
    /\ SetAcc(evaluateIntersection(start, expanded, walls[i_find + 1], i_find + 1, Acc))
    /\ IF i_find + 1 < Len(walls)
       THEN i_find' = i_find + 1 /\ rpc' = "walls"
       ELSE i_find' = 0 /\ rpc' = "borders"
    /\ UNCHANGED <<start, expanded, endPoint>>
    /\ UNCHANGED <<geomVars, frameVars, isectVars>>

\* Lines 194-197: one iteration of the loop over the borders.
FindBorder ==
    /\ rpc = "borders"
    /\ i_find < Len(borders)
    /\ SetAcc(evaluateIntersection(start, expanded, borders[i_find + 1],
                                   Len(walls) + i_find + 1, Acc))
    /\ i_find' = i_find + 1
    /\ rpc' = IF i_find + 1 < Len(borders) THEN "borders" ELSE "return"
    /\ UNCHANGED <<start, expanded, endPoint>>
    /\ UNCHANGED <<geomVars, frameVars, isectVars>>

\* Line 199: return intersection.  An intersection never assigned is read
\* uninitialized: the caller receives an arbitrary Point.
FindReturn ==
    /\ rpc = "return"
    /\ \E p \in (IF intersection = Unassigned THEN GarbagePoints ELSE {intersection}) :
          endPoint' = p
    /\ rpc' = "done"
    /\ UNCHANGED <<start, expanded, i_find, intersection, temp,
                   dist_to_intersection, winner>>
    /\ UNCHANGED <<geomVars, frameVars, isectVars>>

NextRay == FindEnter \/ FindWall \/ FindBorder \/ FindReturn

SpecRay == InitRay /\ [][NextRay]_vars

(***************************************************************************)
(* findLineSegmentIntersection on its own, on segments of a small grid.    *)
(***************************************************************************)
InitIsect ==
    /\ InitGeom /\ InitFrame /\ IdleRay
    /\ l1 \in { Ln(p, q) : p \in GridPoints, q \in GridPoints }
    /\ l2 \in { Ln(p, q) : p \in GridPoints, q \in GridPoints }
    /\ out = Unassigned
    /\ ret = -1

CallIntersect ==
    /\ ret = -1
    /\ LET r == findLineSegmentIntersection(l1, l2, out)
       IN  ret' = r.ret /\ out' = r.point
    /\ UNCHANGED <<l1, l2>>
    /\ UNCHANGED <<geomVars, frameVars, rayVars>>

NextIsect == CallIntersect

SpecIsect == InitIsect /\ [][NextIsect]_vars

(***************************************************************************)
(* Ray density (Spec).                                                     *)
(***************************************************************************)
MaxDensity == Rat(MAX_RAY_DENSITY, 1)

DensityInRange(d) == DLeq(Zero, d) /\ DLeq(d, MaxDensity)

\* C1: from the initial density 180, after any sequence of scroll events the
\* ray density lies in [0, 1080]; an event that drives the sum below 0 leaves
\* it at 0, one that drives it above 1080 leaves it at 1080.
C1_DensityClamped ==
    /\ [] DensityInRange(RAY_DENSITY)
    /\ [][ nscroll' # nscroll =>
             LET sum == RAdd(RAY_DENSITY, yoffset')
             IN  /\ RLess(sum, Zero) => RAY_DENSITY' = Zero
                 /\ RLess(MaxDensity, sum) => RAY_DENSITY' = MaxDensity ]_vars

C1_Witness ==
    /\ nscroll > 0
    /\ yoffset = Rat(2000, 1)
    /\ RAY_DENSITY = MaxDensity

\* C2: a scroll event whose sum d + delta stays within [0, 1080] changes the
\* density by exactly delta, and changes nothing else of the program's state.
C2_ExactDelta ==
    [][ (nscroll' # nscroll /\ DensityInRange(RAdd(RAY_DENSITY, yoffset'))) =>
          /\ RAY_DENSITY' = RAdd(RAY_DENSITY, yoffset')
          /\ UNCHANGED <<walls, borders, pc, inc, i, angle, cast, nfind>>
          /\ UNCHANGED <<rayVars, isectVars>> ]_vars

C2_Witness ==
    /\ nscroll = 1
    /\ yoffset = Rat(1, 2)
    /\ RAY_DENSITY = Rat(361, 2)

\* C9: the density changes only by a scroll event delivered while main polls
\* for events; while drawRays runs it does not change, so the density read at
\* each loop test is the one inc was computed from; walls and borders never
\* change.
C9_StableSnapshot ==
    /\ [] (pc = "loop" => inc = DDiv(One, RAY_DENSITY))
    /\ [][ /\ pc \in {"drawRays", "loop"} => RAY_DENSITY' = RAY_DENSITY
           /\ RAY_DENSITY' # RAY_DENSITY => (pc = "poll" /\ nscroll' = nscroll + 1)
           /\ walls' = walls
           /\ borders' = borders ]_vars

C9_Witness ==
    /\ pc = "loop"
    /\ nscroll > 0
    /\ RAY_DENSITY # Rat(INITIAL_RAY_DENSITY, 1)
    /\ i > 1
    /\ i < IntOf(RAY_DENSITY)

\* C10: a frame casts exactly as many rays as the ray density says, one call
\* of findNearestIntersectionPoint each, the i-th at angle i * (2 PI / count),
\* evenly spaced around the full circle (count increments make one turn); at
\* density 0 nothing is cast.
C10_RaysMatchDensity ==
    /\ pc = "walls" =>
          /\ Rat(cast, 1) = RAY_DENSITY
          /\ nfind = cast
          /\ cast > 0 => RMul(Rat(cast, 1), inc) = One
    /\ (pc = "loop" /\ cast > 0) => angle = RMul(Rat(cast - 1, 1), inc)

(***************************************************************************)
(* findNearestIntersectionPoint and expandLine (SpecRay).                  *)
(***************************************************************************)
Called == rpc \in {"walls", "borders", "return", "done"}

Finished == rpc \in {"return", "done"}

\* Strictly inside the rectangle with extents 1.1.
StrictlyInside(pt) ==
    /\ RLess(Dec(-110), pt.x) /\ RLess(pt.x, Dec(110))
    /\ RLess(Dec(-110), pt.y) /\ RLess(pt.y, Dec(110))

\* C3: with the borders at 1.1 and the origin strictly inside them, every
\* sampled ray has an intersection assigned, so the Point returned is never
\* the unassigned one.
C3_AlwaysHit ==
    (Finished /\ StrictlyInside(start.point1)) =>
        /\ intersection # Unassigned
        /\ winner \in 1..(Len(walls) + Len(borders))
        /\ rpc = "done" => endPoint = intersection

C3_Witness ==
    /\ rpc = "done"
    /\ StrictlyInside(start.point1)
    /\ winner > Len(walls)
    /\ endPoint = intersection
    /\ endPoint # Unassigned

Direction(l) == Pt(RSub(l.point2.x, l.point1.x), RSub(l.point2.y, l.point1.y))

Cross(a, b) == RSub(RMul(a.x, b.y), RMul(a.y, b.x))

Dot(a, b) == RAdd(RMul(a.x, b.x), RMul(a.y, b.y))

\* The directions of two segments agree: positive dot product, and parallel
\* up to an angle whose tangent is at most 1/1000 (the near-vertical and
\* near-horizontal branches straighten a ray by less than that).
SameDirection(a, b) ==
    LET da == Direction(a)
        db == Direction(b)
    IN  /\ RLess(Zero, Dot(da, db))
        /\ ~RLess(RMul(Rat(1, 1000), Dot(da, db)), RAbs(Cross(da, db)))

\* C4: expandLine keeps point1 and puts point2 in the direction of the
\* argument's point2, in every branch.
C4_ExpandKeepsDirection ==
    Called =>
        /\ expanded.point1 = start.point1
        /\ SameDirection(start, expanded)

Obstacle(k) == IF k <= Len(walls) THEN walls[k] ELSE borders[k - Len(walls)]

Hit(k) == findLineSegmentIntersection(expanded, Obstacle(k), Unassigned)

Hits == { k \in 1..(Len(walls) + Len(borders)) : Hit(k).ret = 1 }

HitDist(k) == pointDistanceSq(start.point1, Hit(k).point)

Nearest == { k \in Hits : \A j \in Hits : ~SqLess(HitDist(j), HitDist(k)) }

\* C7: the returned Point is the intersection with the obstacle that comes
\* first in iteration order among those at the least distance.
C7_FirstNearestWins ==
    (Finished /\ Hits # {}) =>
        /\ winner \in Nearest
        /\ \A j \in Nearest : winner <= j
        /\ intersection = Hit(winner).point

C7_Witness ==
    /\ rpc = "done"
    /\ Cardinality(Nearest) >= 2
    /\ Cardinality(Hits) > Cardinality(Nearest)
    /\ winner \in Nearest
    /\ \A j \in Nearest : winner <= j
    /\ endPoint = Hit(winner).point

(***************************************************************************)
(* findLineSegmentIntersection (SpecIsect).                                *)
(***************************************************************************)
Orient(a, b, c) ==
    Sign(Cross(Pt(RSub(b.x, a.x), RSub(b.y, a.y)), Pt(RSub(c.x, a.x), RSub(c.y, a.y))).n)

\* Two segments that are not parallel share a point exactly when neither has
\* both its ends strictly on one side of the other.
SegmentsMeet(a, b) ==
    /\ Orient(a.point1, a.point2, b.point1) * Orient(a.point1, a.point2, b.point2) <= 0
    /\ Orient(b.point1, b.point2, a.point1) * Orient(b.point1, b.point2, a.point2) <= 0

Between(v, a, b) == (DLeq(a, v) /\ DLeq(v, b)) \/ (DLeq(b, v) /\ DLeq(v, a))

OnSegment(pt, l) ==
    /\ Orient(l.point1, l.point2, pt) = 0
    /\ Between(pt.x, l.point1.x, l.point2.x)
    /\ Between(pt.y, l.point1.y, l.point2.y)

\* C5: for segments that are not parallel, 1 is returned exactly when t and u
\* both lie in [0, 1], which is exactly when the segments share a point; the
\* Point written is l1.point1 + t * (l1.point2 - l1.point1) and lies on both
\* segments; otherwise 0 is returned and the Point is left unwritten.
C5_IntersectionCorrect ==
    (ret # -1 /\ Denominator(l1, l2) # Zero) =>
        LET t == ParamT(l1, l2)
            u == ParamU(l1, l2)
            both == DLeq(Zero, t) /\ DLeq(t, One) /\ DLeq(Zero, u) /\ DLeq(u, One)
        IN  /\ ret \in {0, 1}
            /\ ret = 1 <=> both
            /\ ret = 1 <=> SegmentsMeet(l1, l2)
            /\ ret = 1 =>
                  /\ out.x = RAdd(l1.point1.x, RMul(t, RSub(l1.point2.x, l1.point1.x)))
                  /\ out.y = RAdd(l1.point1.y, RMul(t, RSub(l1.point2.y, l1.point1.y)))
                  /\ OnSegment(out, l1)
                  /\ OnSegment(out, l2)
            /\ ret = 0 => out = Unassigned

C5_Witness ==
    /\ ret = 1
    /\ Denominator(l1, l2) # Zero
    /\ ParamT(l1, l2) = One
    /\ ParamU(l1, l2) = Rat(1, 2)
    /\ OnSegment(out, l1)
    /\ OnSegment(out, l2)

====
